---------------------------- MODULE Spec2Model ----------------------------
(***************************************************************************)
(* A model of sim.py, the turn-based Figgie round with particle-filter     *)
(* beliefs: the players' hands, cash and particle filters, the trade log,  *)
(* the turn loop and the three negotiation functions.                      *)
(*                                                                         *)
(* Numbers.  Python floats are modelled by two representations:            *)
(*   - cash, prices and expected values are exact integers counted in      *)
(*     MoneyUnit-ths of a dollar;                                          *)
(*   - particle weights, likelihoods and probabilities are decimal         *)
(*     floating-point numbers [m, x] standing for m * 10^(-x), with a      *)
(*     mantissa of Digits digits, which underflow to zero below the        *)
(*     smallest positive double (about 10^-323) as Python's floats do.     *)
(***************************************************************************)
EXTENDS Integers, Sequences, FiniteSets, TLC

(***************************************************************************)
(* Decimal floating point (Python float).                                  *)
(***************************************************************************)
Digits == 2 + 2

MantMin == 10 * 10 * 10

MantMax == (10 * MantMin) - 1

\* 10^-323 is the order of the smallest positive double
DenormalExp == 323 + (Digits - 1)

Pow10(k) ==
    CASE k <= 0 -> 1
      [] k = 1 -> 10
      [] k = 2 -> 100
      [] k = 3 -> 1000
      [] k = 4 -> 10000
      [] k = 5 -> 100000
      [] k = 6 -> 1000000
      [] k = 7 -> 10000000
      [] k = 8 -> 100000000
      [] OTHER -> 1000000000

NumDigits(m) ==
    IF m < 10 THEN 1
    ELSE IF m < 100 THEN 2
    ELSE IF m < 1000 THEN 3
    ELSE IF m < 10000 THEN 4
    ELSE IF m < 100000 THEN 5
    ELSE IF m < 1000000 THEN 6
    ELSE IF m < 10000000 THEN 7
    ELSE IF m < 100000000 THEN 8
    ELSE IF m < 1000000000 THEN 9
    ELSE 10

FZero == [m |-> 0, x |-> 0]

FOne == [m |-> MantMin, x |-> Digits - 1]

\* the float nearest to m * 10^(-x): the mantissa cut to Digits digits, and
\* zero when the value is below the smallest positive double
FNorm(m, x) ==
    IF m <= 0 THEN FZero
    ELSE LET d  == NumDigits(m)
             mm == IF d > Digits THEN m \div Pow10(d - Digits)
                                 ELSE m * Pow10(Digits - d)
             xx == x - (d - Digits)
         IN  IF xx > DenormalExp THEN FZero ELSE [m |-> mm, x |-> xx]

FIsZero(a) == a.m = 0

FMul(a, b) == FNorm(a.m * b.m, a.x + b.x)

FMulInt(a, n) == FNorm(a.m * n, a.x)

\* a / b, b # 0
FDiv(a, b) == FNorm((a.m * Pow10(Digits + 1)) \div b.m, (a.x - b.x) + Digits + 1)

FAdd(a, b) ==
    IF FIsZero(a) THEN b
    ELSE IF FIsZero(b) THEN a
    ELSE IF a.x <= b.x
         THEN FNorm(a.m + (IF b.x - a.x > Digits THEN 0
                           ELSE b.m \div Pow10(b.x - a.x)), a.x)
         ELSE FNorm(b.m + (IF a.x - b.x > Digits THEN 0
                           ELSE a.m \div Pow10(a.x - b.x)), b.x)

\* a < b, for a, b >= 0
FLess(a, b) ==
    IF FIsZero(b) THEN FALSE
    ELSE IF FIsZero(a) THEN TRUE
    ELSE IF a.x # b.x THEN a.x > b.x
    ELSE a.m < b.m

FFromInt(n) == FNorm(n, 0)

\* the float a (0 <= a < 10^5) as an integer count of 1/scale
FToFixed(a, scale) ==
    IF FIsZero(a) THEN 0
    ELSE IF a.x >= 0
         THEN IF a.x > 9 THEN 0 ELSE (a.m * scale) \div Pow10(a.x)
         ELSE a.m * scale * Pow10(0 - a.x)

\* 10^(4 - i/20) for i = 0 .. 20
Pow10Table ==
    << 10000, 8913, 7943, 7079, 6310, 5623, 5012, 4467, 3981, 3548, 3162,
       2818, 2512, 2239, 1995, 1778, 1585, 1413, 1259, 1122, 1000 >>

\* math.exp(-y / 1000) for y >= 0, y in thousandths
ExpNeg(y) ==
    LET t == ((y \div 1000) * 434) + (((y \div 1000) * 29) \div 100)
               + (((y % 1000) * 4343) \div 10000)
        k == t \div 1000
        f == t % 1000
        i == f \div 50
        r == f % 50
        m == Pow10Table[i + 1] - (((Pow10Table[i + 1] - Pow10Table[i + 2]) * r) \div 50)
    IN  FNorm(m, 4 + k)


(***************************************************************************)
(* Valuation and belief (sim.py 83-189).                                   *)
(***************************************************************************)
Suits == {"Spades", "Clubs", "Hearts", "Diamonds"}

MoneyUnit == 12 * 100

\* dollars to money units
Dollars(n) == n * MoneyUnit

\* a faulty valuation that ignores the colour of the suits
valuation_without_colour(card_suit, candidate_goal) ==
    IF card_suit = candidate_goal THEN 30 ELSE 10

valuation_given_candidate(card_suit, candidate_goal) ==
    LET black_suits == {"Spades", "Clubs"}
        red_suits   == {"Hearts", "Diamonds"}
    IN  IF card_suit = candidate_goal THEN 30
        ELSE IF (card_suit \in black_suits /\ candidate_goal \in black_suits)
                 \/ (card_suit \in red_suits /\ candidate_goal \in red_suits)
             THEN 20
             ELSE 10

\* sum of prob * valuation over the four candidates, in money units
expected_value(card_suit, beliefs) ==
    LET term(c) == FToFixed(FMulInt(beliefs[c], valuation_given_candidate(card_suit, c)),
                            MoneyUnit)
    IN  term("Spades") + term("Clubs") + term("Hearts") + term("Diamonds")

\* math.exp(x / 1000) raises OverflowError above the largest double
ExpOverflows(x) == x > 709782

\* logistic(x / 1000), for x with ~ExpOverflows(-x)
logistic(x) ==
    IF x >= 0
    THEN FDiv(FOne, FAdd(FOne, ExpNeg(x)))
    ELSE FDiv(FOne, FAdd(FOne, FDiv(FOne, ExpNeg(0 - x))))

n_particles == 100

sigma == 3

\* threshold_ratio = 0.5
threshold_ratio == [m |-> 5 * MantMin, x |-> Digits]

(***************************************************************************)
(* A particle filter.  Every particle that carries the same candidate goes *)
(* through the same operations: it starts with weight 1.0, is multiplied   *)
(* by the same likelihoods and divided by the same totals.  The filter is  *)
(* therefore kept as, for each candidate, the number of particles that     *)
(* carry it (cnt) and the weight each of them has (w).                     *)
(***************************************************************************)
\* the particles made by a run of draws: weight 1.0 each
Particles(draw) ==
    [cnt |-> draw, w |-> [s \in Suits |-> IF draw[s] > 0 THEN FOne ELSE FZero]]

\* sum(p.weight for p in self.particles)
total_weight(f) ==
    FAdd(FAdd(FAdd(FMulInt(f.w["Spades"], f.cnt["Spades"]),
                   FMulInt(f.w["Clubs"], f.cnt["Clubs"])),
              FMulInt(f.w["Hearts"], f.cnt["Hearts"])),
         FMulInt(f.w["Diamonds"], f.cnt["Diamonds"]))

RECURSIVE normalize_weights(_, _)

\* a faulty initialization that leaves the weights at 1.0
initialize_unnormalized(draw) == Particles(draw)

\* draw: the candidates drawn by the n_particles calls of random.choice
initialize_particles(draw) == normalize_weights(Particles(draw), draw)

\* a faulty normalization that does nothing
normalize_weights_skipped(f, draw) == f

normalize_weights(f, draw) ==
    LET total == total_weight(f)
    IN  IF ~FIsZero(total)
        THEN [f EXCEPT !.w = [s \in Suits |-> IF f.cnt[s] > 0
                                              THEN FDiv(f.w[s], total)
                                              ELSE FZero]]
        ELSE initialize_particles(draw)

\* math.exp(-((price - expected_val) ** 2) / (2 * sigma ** 2)); price in
\* money units, expected_val in dollars
\* a faulty likelihood that tells no candidate from another
likelihood_flat(price, expected_val, sg) == FOne

likelihood(price, expected_val, sg) ==
    LET cents == ((price - Dollars(expected_val)) * 100) \div MoneyUnit
    IN  ExpNeg((cents * cents) \div (20 * sg * sg))

get_belief_distribution(f) == [s \in Suits |-> FMulInt(f.w[s], f.cnt[s])]

\* sum(p.weight ** 2 for p in self.particles)
SumSquares(f) ==
    LET sq(s) == FMulInt(FMul(f.w[s], f.w[s]), f.cnt[s])
    IN  FAdd(FAdd(FAdd(sq("Spades"), sq("Clubs")), sq("Hearts")), sq("Diamonds"))

effective_sample_size(f) == FDiv(FOne, SumSquares(f))

\* A suit whose particles hold the largest share of the weight
Heaviest(b) ==
    CHOOSE s \in Suits : \A t \in Suits : ~FLess(b[s], b[t])

\* The draw of random.choices that lands on each candidate in proportion
\* to its weight
ProportionalDraw(f) ==
    LET b  == get_belief_distribution(f)
        h  == Heaviest(b)
        n  == [s \in Suits |-> IF s = h THEN 0 ELSE FToFixed(b[s], n_particles)]
    IN  [n EXCEPT ![h] = n_particles
                           - (n["Spades"] + n["Clubs"] + n["Hearts"] + n["Diamonds"])]

\* The draws random.choices(self.particles, weights, k) can make: a
\* candidate is drawn only if a particle with positive weight carries it.
\* family bounds the draws explored besides the proportional one.
ResampleDraws(f, family) ==
    { c \in family \cup {ProportionalDraw(f)} :
        \A s \in Suits : c[s] > 0 => (f.cnt[s] > 0 /\ ~FIsZero(f.w[s])) }

\* a faulty resampling that draws the candidates afresh, a quarter each
resample_particles_afresh(f, draw) ==
    initialize_particles([s \in Suits |-> n_particles \div 4])

resample_particles(f, draw) == normalize_weights(Particles(draw), draw)

\* a faulty test that never resamples
resample_if_needed_never(f, family) == { f }

\* the filters resample_if_needed can leave
resample_if_needed(f, family) ==
    IF FLess(effective_sample_size(f), FMulInt(threshold_ratio, n_particles))
    THEN { resample_particles(f, d) : d \in ResampleDraws(f, family) }
    ELSE { f }

\* a faulty update that multiplies every weight by the likelihood twice
update_twice(f, card_suit, price, sg, inits, family) ==
    LET l(s) == likelihood(price, valuation_given_candidate(card_suit, s), sg)
        weighted == [f EXCEPT !.w = [s \in Suits |-> FMul(FMul(f.w[s], l(s)), l(s))]]
    IN  UNION { resample_if_needed(normalize_weights(weighted, i), family) : i \in inits }

\* The filters update(card_suit, price, sigma) can leave.  inits bounds the
\* draws of a re-initialization, family those of a resampling.
update(f, card_suit, price, sg, inits, family) ==
    LET weighted == [f EXCEPT !.w = [s \in Suits |->
                       FMul(f.w[s],
                            likelihood(price, valuation_given_candidate(card_suit, s), sg))]]
    IN  UNION { resample_if_needed(normalize_weights(weighted, i), family) : i \in inits }


(***************************************************************************)
(* Game setup (sim.py 204-253).                                            *)
(***************************************************************************)
VARIABLE config           \* the configuration the setup and the loop read

num_players == 4

Turns == 10

\* total_turns = config["FiggieGame"]["Turns"]
total_turns == config.Turns

INITIAL_MONEY == 350

pot_amount == 100

SpadesCount == 10

ClubsCount == 12

HeartsCount == 10

DiamondsCount == 8

\* the config dictionary of the source, as far as the engine reads it
SourceConfig ==
    [Turns |-> Turns,
     Distribution |-> [Spades |-> SpadesCount, Clubs |-> ClubsCount,
                       Hearts |-> HeartsCount, Diamonds |-> DiamondsCount]]

\* deck_distribution = config["DeckSetup"]["Distribution"]
deck_distribution == config.Distribution

\* the order of the keys of config["DeckSetup"]["Distribution"]
SuitOrder == <<"Spades", "Clubs", "Hearts", "Diamonds">>

actual_goal_suit == "Spades"

HUMAN_PLAYER == "P1"

\* f"P{i+1}" for i in range(num_players)
PlayerOrder == [i \in 1 .. num_players |-> <<"P1", "P2", "P3", "P4">>[i]]

Players == { PlayerOrder[i] : i \in 1 .. num_players }

\* the card symbol + str(i)
Card(s, i) == [suit |-> s, n |-> i]

SuitCards(s) == [i \in 1 .. deck_distribution[s] |-> Card(s, i)]

\* the deck as built, before random.shuffle
BuiltDeck ==
    SuitCards(SuitOrder[1]) \o SuitCards(SuitOrder[2])
        \o SuitCards(SuitOrder[3]) \o SuitCards(SuitOrder[4])

Reverse(q) == [i \in 1 .. Len(q) |-> q[Len(q) + 1 - i]]

\* random.shuffle(deck): the permutations explored
Shuffles == {"reversed"}

Shuffle(d, how) == IF how = "reversed" THEN Reverse(d) ELSE d

\* initial_deal: card idx (from 0) goes to player (idx % num_players) + 1
initial_deal(d) ==
    [p \in Players |->
        LET i == CHOOSE k \in 1 .. num_players : PlayerOrder[k] = p
        IN  [k \in 1 .. (((Len(d) - i) \div num_players) + 1) |->
                d[((k - 1) * num_players) + i]]]

\* all_bots = [players[p] for p in players if p != HUMAN_PLAYER]
all_bots == SelectSeq(PlayerOrder, LAMBDA p : p # HUMAN_PLAYER)

\* a faulty list of the other bots that keeps the bot itself
other_bots_with_self(opponent) == all_bots

other_bots(opponent) == SelectSeq(all_bots, LAMBDA b : b # opponent)

(***************************************************************************)
(* Bounds of the exploration.                                              *)
(***************************************************************************)
\* the number of trades explored
MaxTrades == 1

\* the last turn in which a trade after the first is explored, and after
\* which the human, once a trade has settled, ends the round (0: the first
\* trade, explored in every turn, is the only one)
MaxTurns == 0

Vec(a, b, c, d) ==
    [s \in Suits |-> CASE s = "Spades" -> a [] s = "Clubs" -> b
                       [] s = "Hearts" -> c [] OTHER -> d]

\* the candidates drawn for the four filters when the players are made
InitialDraws ==
    { [p \in Players |-> IF p = "P1" THEN Vec(30, 22, 25, 23)
                         ELSE IF p = "P2" THEN Vec(22, 30, 23, 25)
                         ELSE IF p = "P3" THEN Vec(25, 25, 25, 25)
                         ELSE Vec(20, 24, 28, 28)] }

\* the candidates drawn when a filter re-initializes during the game
ReinitDraws == { Vec(28, 24, 26, 22) }

\* draws of a resampling explored besides the proportional one
ResampleFamily == { }

\* random.random(), in hundredths
RollDraws == {1, 50}

\* the rolls nearest to 1, which are 1.0 at Digits digits
TopRoll == 10 * 10

\* random.uniform(a, b) = a + (b - a) * random.random(), random in quarters
UniformDraws == {0, 4}

\* a faulty draw from a range twice as wide
uniform_wide(a, b, u) == 2 * (a + (((b - a) * u) \div 4))

uniform(a, b, u) == a + (((b - a) * u) \div 4)

\* random.choice(seq): the index drawn, counted from either end
ChoiceDraws == {"first", "last"}

choice(q, c) == IF c = "first" THEN q[1] ELSE q[Len(q)]

\* what the human types at the action, suit and price prompts
ActionInputs == {"b", "s", "x"}

SuitInputs == {"S", "?"}

PriceInputs ==
    { [text |-> "18", num |-> TRUE, val |-> Dollars(18)],
      [text |-> "150", num |-> TRUE, val |-> Dollars(150)],
      [text |-> "400", num |-> TRUE, val |-> Dollars(400)],
      [text |-> "-400", num |-> TRUE, val |-> Dollars(0 - 400)],
      [text |-> "abc", num |-> FALSE, val |-> 0] }


(***************************************************************************)
(* State.                                                                  *)
(***************************************************************************)
VARIABLES
    hand,                 \* players[p].hand: the list of cards of player p
    money,                \* players[p].money, in money units
    pf,                   \* players[p].pf: the particle filter of player p
    trade_events_global,  \* the list of trade events
    turn_number,          \* the global turn counter
    pc,                   \* where turn_loop stands
    last                  \* what the last negotiation attempt did

vars == <<config, hand, money, pf, trade_events_global, turn_number, pc, last>>

market == <<hand, money, pf, trade_events_global>>

NoCard == Card("", 0)

NoAttempt ==
    [fn |-> "", outcome |-> "", buyer |-> "", seller |-> "", suit |-> "",
     price |-> 0, card |-> NoCard, responder |-> "", rolled |-> {}]

\* unicode_to_name[card[0]]
SuitOf(card) == card.suit

\* [card for card in h if unicode_to_name[card[0]] == suit]
CardsOfSuit(h, suit) == SelectSeq(h, LAMBDA c : SuitOf(c) = suit)

\* a faulty list.remove that leaves the list as it is
RemoveNothing(h, card) == h

\* list.remove(card): the list without its first element equal to card
Remove(h, card) ==
    LET i == CHOOSE k \in 1 .. Len(h) :
                 h[k] = card /\ \A j \in 1 .. (k - 1) : h[j] # card
    IN  [k \in 1 .. (Len(h) - 1) |-> IF k < i THEN h[k] ELSE h[k + 1]]

\* round(price, 2): the price in cents
RoundCents(price) == ((price * 100) + (MoneyUnit \div 2)) \div MoneyUnit

\* the argument of logistic, 0.5 * gap, in thousandths
HalfGap(gap) == (gap * 1000) \div (2 * MoneyUnit)

\* a faulty seller's probability, which falls as the price rises
SellerAcceptProbFalling(price, ev) == logistic(HalfGap(ev - price))

\* logistic(0.5 * (price - ev)): a seller is asked
SellerAcceptProb(price, ev) == logistic(HalfGap(price - ev))

\* a faulty buyer's probability, which rises with the price
BuyerAcceptProbRising(price, ev) == logistic(HalfGap(price - ev))

\* logistic(0.5 * (ev - price)): a buyer is asked
BuyerAcceptProb(price, ev) == logistic(HalfGap(ev - price))

Roll(r) == FNorm(r, 2)

\* a faulty cash check that looks at the balance only
CannotAffordBalanceOnly(cash, price) == cash < 0

\* if buyer.money < price: the attempt is aborted
CannotAfford(cash, price) == cash < price

\* a faulty payment that charges the buyer and credits nobody
PayBuyerOnly(m, buyer, seller, price) == [m EXCEPT ![buyer] = @ - price]

\* buyer.money -= price; seller.money += price
Pay(m, buyer, seller, price) ==
    [m EXCEPT ![buyer] = @ - price, ![seller] = @ + price]

Belief(p) == get_belief_distribution(pf[p])

\* a faulty broadcast that reaches the human's filter only
BroadcastToHuman(suit, price) ==
    \E r \in update(pf[HUMAN_PLAYER], suit, price, sigma, ReinitDraws, ResampleFamily) :
        pf' = [pf EXCEPT ![HUMAN_PLAYER] = r]

\* for p in players.values(): p.pf.update(suit, price, sigma=3.0)
Broadcast(suit, price) ==
    \E r1 \in update(pf[PlayerOrder[1]], suit, price, sigma, ReinitDraws, ResampleFamily),
       r2 \in update(pf[PlayerOrder[2]], suit, price, sigma, ReinitDraws, ResampleFamily),
       r3 \in update(pf[PlayerOrder[3]], suit, price, sigma, ReinitDraws, ResampleFamily),
       r4 \in update(pf[PlayerOrder[4]], suit, price, sigma, ReinitDraws, ResampleFamily) :
        pf' = [p \in Players |-> CASE p = PlayerOrder[1] -> r1
                                   [] p = PlayerOrder[2] -> r2
                                   [] p = PlayerOrder[3] -> r3
                                   [] OTHER -> r4]

\* a faulty event that counts the trades from 0
TradeEventFromZero(buyer, seller, suit, price) ==
    [trade_index |-> Len(trade_events_global),
     time        |-> turn_number * 10,
     buyer       |-> buyer,
     seller      |-> seller,
     card        |-> suit,
     suit        |-> suit,
     price       |-> RoundCents(price)]

\* a faulty event that names the two sides the wrong way round
TradeEventSwapped(buyer, seller, suit, price) ==
    [trade_index |-> Len(trade_events_global) + 1,
     time        |-> turn_number * 10,
     buyer       |-> seller,
     seller      |-> buyer,
     card        |-> suit,
     suit        |-> suit,
     price       |-> RoundCents(price)]

TradeEvent(buyer, seller, suit, price) ==
    [trade_index |-> Len(trade_events_global) + 1,
     time        |-> turn_number * 10,
     buyer       |-> buyer,
     seller      |-> seller,
     card        |-> suit,
     suit        |-> suit,
     price       |-> RoundCents(price)]

\* The trade executes: the card moves, the cash moves, every filter is
\* updated and the event is appended.
Execute(fn, buyer, seller, card, suit, price, responder, rolled) ==
    /\ hand' = [hand EXCEPT ![seller] = Remove(@, card),
                            ![buyer] = Append(@, card)]
    /\ money' = Pay(money, buyer, seller, price)
    /\ Broadcast(suit, price)
    /\ trade_events_global' =
           Append(trade_events_global, TradeEvent(buyer, seller, suit, price))
    /\ last' = [fn |-> fn, outcome |-> "Accepted", buyer |-> buyer,
                seller |-> seller, suit |-> suit, price |-> price, card |-> card,
                responder |-> responder, rolled |-> rolled]

\* a faulty return that logs the attempt as an event
ReturnLogged(fn, outcome) ==
    /\ UNCHANGED <<hand, money, pf>>
    /\ trade_events_global' =
           Append(trade_events_global, TradeEvent("", "", "", 0))
    /\ last' = [NoAttempt EXCEPT !.fn = fn, !.outcome = outcome]

\* The function returns a message without executing a trade.
Return(fn, outcome) ==
    /\ UNCHANGED market
    /\ last' = [NoAttempt EXCEPT !.fn = fn, !.outcome = outcome]


(***************************************************************************)
(* bot_vs_bot_propose_trade (sim.py 296-402).                              *)
(* action, c, u, r: what random.choice(["buy", "sell"]), random.choice of  *)
(* the hand, random.uniform(-2, 2) and random.random() return.             *)
(***************************************************************************)
\* if price < 0.5: price = 0.5
FloorPrice(price) ==
    IF price < (Dollars(1) \div 2) THEN Dollars(1) \div 2 ELSE price

bot_vs_bot_propose_trade(botA, botB, action, c, u, r) ==
    IF action = "buy"
    THEN IF hand[botB] = << >>
         THEN Return("bot_vs_bot", "Aborted")
         ELSE LET card    == choice(hand[botB], c)
                  suit    == SuitOf(card)
                  ev      == expected_value(suit, Belief(botA))
                  price   == FloorPrice(ev + uniform(Dollars(0 - 2), Dollars(2), u))
                  botB_ev == expected_value(suit, Belief(botB))
              IN  IF CannotAfford(money[botA], price)
                  THEN Return("bot_vs_bot", "Aborted")
                  ELSE IF FLess(Roll(r), SellerAcceptProb(price, botB_ev))
                       THEN Execute("bot_vs_bot", botA, botB, card, suit, price,
                                    "seller", {"seller"})
                       ELSE Return("bot_vs_bot", "Rejected")
    ELSE IF hand[botA] = << >>
         THEN Return("bot_vs_bot", "Aborted")
         ELSE LET card    == choice(hand[botA], c)
                  suit    == SuitOf(card)
                  ev      == expected_value(suit, Belief(botA))
                  price   == FloorPrice(ev + uniform(Dollars(0 - 2), Dollars(2), u))
                  botB_ev == expected_value(suit, Belief(botB))
              IN  IF CannotAfford(money[botB], price)
                  THEN Return("bot_vs_bot", "Aborted")
                  ELSE IF FLess(Roll(r), BuyerAcceptProb(price, botB_ev))
                       THEN Execute("bot_vs_bot", botB, botA, card, suit, price,
                                    "buyer", {"buyer"})
                       ELSE Return("bot_vs_bot", "Rejected")

(***************************************************************************)
(* human_propose_trade (sim.py 420-517).                                   *)
(* action, suit_char, price_in: what the human types; r: random.random().  *)
(***************************************************************************)
suit_map_input == [S |-> "Spades", C |-> "Clubs", H |-> "Hearts", D |-> "Diamonds"]

\* a faulty cancellation that charges the human a dollar
human_propose_trade_charging(opponent, action, suit_char, price_in, r) ==
    /\ money' = [money EXCEPT ![HUMAN_PLAYER] = @ - Dollars(1)]
    /\ UNCHANGED <<hand, pf, trade_events_global>>
    /\ last' = [NoAttempt EXCEPT !.fn = "human", !.outcome = "Cancelled"]

human_propose_trade(opponent, action, suit_char, price_in, r) ==
    IF action \notin {"b", "s"}
    THEN Return("human", "Cancelled")
    ELSE IF suit_char \notin DOMAIN suit_map_input
    THEN Return("human", "Cancelled")
    ELSE IF ~price_in.num
    THEN Return("human", "Cancelled")
    ELSE LET human  == HUMAN_PLAYER
             suit   == suit_map_input[suit_char]
             price  == price_in.val
             bot_ev == expected_value(suit, Belief(opponent))
         IN  IF action = "b" /\ CannotAfford(money[human], price)
             THEN Return("human", "Aborted")
             ELSE IF action = "s" /\ CannotAfford(money[opponent], price)
             THEN Return("human", "Aborted")
             ELSE IF action = "b"
             THEN LET opponent_cards == CardsOfSuit(hand[opponent], suit)
                  IN  IF opponent_cards = << >>
                      THEN Return("human", "Aborted")
                      ELSE IF FLess(Roll(r), SellerAcceptProb(price, bot_ev))
                           THEN Execute("human", human, opponent, opponent_cards[1],
                                        suit, price, "seller", {"seller"})
                           ELSE Return("human", "Rejected")
             ELSE LET human_cards == CardsOfSuit(hand[human], suit)
                  IN  IF human_cards = << >>
                      THEN Return("human", "Aborted")
                      ELSE IF FLess(Roll(r), BuyerAcceptProb(price, bot_ev))
                           THEN Execute("human", opponent, human, human_cards[1],
                                        suit, price, "buyer", {"buyer"})
                           ELSE Return("human", "Rejected")

(***************************************************************************)
(* bot_propose_trade (sim.py 519-609).                                     *)
(* action, suit, u: random.choice(["buy", "sell"]), the suit of the card   *)
(* (or, with an empty hand, the suit) random.choice gives, and             *)
(* random.uniform(0, 2); response: what the human answers.                 *)
(***************************************************************************)
\* the suits the draw can give: of a card of the hand, or any when it is empty
SuitDraws(h) ==
    IF h # << >> THEN { SuitOf(choice(h, c)) : c \in ChoiceDraws } ELSE Suits

bot_propose_trade(opponent, action, suit, u, response) ==
    IF action = "buy"
    THEN LET bot_ev == expected_value(suit, Belief(opponent))
             price  == bot_ev + uniform(0, Dollars(2), u)
         IN  IF CannotAfford(money[opponent], price)
             THEN Return("bot", "Aborted")
             ELSE IF response = "y"
             THEN LET human_cards == CardsOfSuit(hand[HUMAN_PLAYER], suit)
                  IN  IF human_cards = << >>
                      THEN Return("bot", "Aborted")
                      ELSE Execute("bot", opponent, HUMAN_PLAYER, human_cards[1],
                                   suit, price, "seller", {})
             ELSE Return("bot", "Rejected")
    ELSE LET bot_ev == expected_value(suit, Belief(opponent))
             price  == bot_ev - uniform(0, Dollars(2), u)
         IN  IF CannotAfford(money[HUMAN_PLAYER], price)
             THEN Return("bot", "Aborted")
             ELSE IF response = "y"
             THEN LET bot_cards == CardsOfSuit(hand[opponent], suit)
                  IN  IF bot_cards = << >>
                      THEN Return("bot", "Aborted")
                      ELSE Execute("bot", HUMAN_PLAYER, opponent, bot_cards[1],
                                   suit, price, "buyer", {})
             ELSE Return("bot", "Rejected")

(***************************************************************************)
(* turn_loop and run_bot_to_bot_trades (sim.py 405-415, 650-709).          *)
(***************************************************************************)
At(phase, i, j) == [phase |-> phase, i |-> i, j |-> j]

\* a faulty loop test that lets one more turn be played
LoopTestOneMore(turn) ==
    IF turn <= total_turns + 1 THEN At("interact", 1, 0)
    ELSE At("game_over", 0, 0)

\* while turn_number <= total_turns
LoopTest(turn) ==
    IF turn <= total_turns /\ Len(all_bots) > 0
    THEN At("interact", 1, 0)
    ELSE IF turn <= total_turns THEN At("end_turn", 0, 0)
    ELSE At("game_over", 0, 0)

\* after the attempt with other_bots[j] of the bot all_bots[i]
AfterBotToBot(i, j) ==
    IF j < Len(other_bots(all_bots[i])) THEN At("b2b", i, j + 1)
    ELSE IF i < Len(all_bots) THEN At("interact", i + 1, 0)
    ELSE At("end_turn", 0, 0)

\* Trades are explored while fewer than MaxTrades have settled, the first
\* one in any turn and the later ones up to turn MaxTurns.
Explored ==
    /\ Len(trade_events_global) < MaxTrades
    /\ (turn_number <= MaxTurns \/ trade_events_global = << >>)

\* Past these bounds one run of each attempt is explored, which settles
\* nothing: the human chooses [T]rade and types an unknown action, and the
\* responding bot rolls TopRoll.  A bot quotes a bot a price within 22
\* dollars of the responder's value, so the responder's probability is below
\* 1 and a roll close enough to 1 is not below it.
ActionsTyped == IF Explored THEN ActionInputs ELSE {"x"}

\* the suit and price prompts come up only after a valid answer to the
\* prompt before; an answer never asked for is the empty line
SuitsTyped(action) == IF action \in {"b", "s"} THEN SuitInputs ELSE {""}

PricesTyped(action, suit_char) ==
    IF action \in {"b", "s"} /\ suit_char \in DOMAIN suit_map_input
    THEN PriceInputs
    ELSE {[text |-> "", num |-> FALSE, val |-> 0]}

\* what random gives to one call of bot_vs_bot_propose_trade
BotDraws ==
    IF Explored
    THEN [action : {"buy", "sell"}, c : ChoiceDraws, u : UniformDraws, r : RollDraws]
    ELSE {[action |-> "buy", c |-> "first", u |-> 0, r |-> TopRoll]}

\* the human chooses [T]rade
HumanTrades ==
    /\ pc.phase = "interact"
    /\ \E action \in ActionsTyped :
          \E suit_char \in SuitsTyped(action) :
              \E price_in \in PricesTyped(action, suit_char), r \in RollDraws :
                  human_propose_trade(all_bots[pc.i], action, suit_char, price_in, r)
    /\ pc' = AfterBotToBot(pc.i, 0)
    /\ UNCHANGED <<turn_number, config>>

\* the human chooses [P]ass
HumanPasses ==
    /\ pc.phase = "interact"
    /\ Explored
    /\ \E action \in {"buy", "sell"}, u \in UniformDraws, response \in {"y", "n"} :
          \E suit \in SuitDraws(IF action = "buy" THEN hand[HUMAN_PLAYER]
                                ELSE hand[all_bots[pc.i]]) :
              bot_propose_trade(all_bots[pc.i], action, suit, u, response)
    /\ pc' = AfterBotToBot(pc.i, 0)
    /\ UNCHANGED <<turn_number, config>>

\* one iteration of the loop of run_bot_to_bot_trades
BotToBot ==
    /\ pc.phase = "b2b"
    /\ LET active_bot == all_bots[pc.i]
           bot        == other_bots(active_bot)[pc.j]
       IN  IF bot = active_bot
           THEN UNCHANGED <<market, last>>
           ELSE \E d \in BotDraws :
                   bot_vs_bot_propose_trade(active_bot, bot, d.action, d.c, d.u, d.r)
    /\ pc' = AfterBotToBot(pc.i, pc.j)
    /\ UNCHANGED <<turn_number, config>>

\* the answers to "Proceed to next turn?" explored
ProceedInputs ==
    IF turn_number < MaxTurns \/ trade_events_global = << >>
    THEN {"y", "n"}
    ELSE {"n"}

EndOfTurn ==
    /\ pc.phase = "end_turn"
    /\ \E cont \in ProceedInputs :
          IF cont # "y"
          THEN /\ pc' = At("game_over", 0, 0)
               /\ UNCHANGED turn_number
          ELSE /\ turn_number' = turn_number + 1
               /\ pc' = LoopTest(turn_number + 1)
    /\ UNCHANGED <<market, last, config>>

GoalCount(p) == Len(CardsOfSuit(hand[p], actual_goal_suit))

max_count ==
    CHOOSE n \in { GoalCount(p) : p \in Players } :
        \A p \in Players : GoalCount(p) <= n

winners == { p \in Players : GoalCount(p) = max_count }

share_undivided(among) == Dollars(pot_amount)

share(among) == Dollars(pot_amount) \div Cardinality(among)

\* the tally and the split of the pot
FinalScoring ==
    /\ pc.phase = "game_over"
    /\ money' = [p \in Players |->
                    IF p \in winners THEN money[p] + share(winners)
                                     ELSE money[p]]
    /\ pc' = At("done", 0, 0)
    /\ UNCHANGED <<hand, pf, trade_events_global, turn_number, last, config>>

\* the module setup under a configuration
Setup(cfg) ==
    /\ config = cfg
    /\ \E how \in Shuffles :
          hand = initial_deal(Shuffle(BuiltDeck, how))
    /\ money = [p \in Players |-> Dollars(INITIAL_MONEY)]
    /\ \E draws \in InitialDraws :
          pf = [p \in Players |-> initialize_particles(draws[p])]
    /\ trade_events_global = << >>
    /\ turn_number = 1
    /\ pc = LoopTest(1)
    /\ last = NoAttempt

Init == Setup(SourceConfig)

Next ==
    \/ HumanTrades
    \/ HumanPasses
    \/ BotToBot
    \/ EndOfTurn
    \/ FinalScoring

Spec == Init /\ [][Next]_vars

\* the configuration of the source and two edits of it: no turn to play, and
\* a deck one card short
Configurations ==
    { SourceConfig,
      [SourceConfig EXCEPT !.Turns = 0],
      [SourceConfig EXCEPT !.Distribution.Diamonds = @ - 1] }

ConfigInit == \E cfg \in Configurations : Setup(cfg)

\* the program started under any of these configurations
ConfigSpec == ConfigInit /\ [][Next]_vars

(***************************************************************************)
(* One forced trade from the prior: the settlement of a trade (sim.py      *)
(* 333-351) of a card of any suit between any two players at a given       *)
(* price, in the state the module setup leaves.                            *)
(***************************************************************************)
\* samples of n_particles candidates that initialize_particles can draw
PriorDraws ==
    << Vec(25, 25, 25, 25), Vec(30, 22, 25, 23), Vec(22, 30, 23, 25),
       Vec(20, 24, 28, 28), Vec(40, 30, 0, 30) >>

\* the samples of the four players: one of PriorDraws each, in rotation
PriorProfiles ==
    { [p \in Players |->
         LET i == CHOOSE n \in 1 .. num_players : PlayerOrder[n] = p
         IN  PriorDraws[((k + i) % Len(PriorDraws)) + 1]] :
      k \in 1 .. Len(PriorDraws) }

\* the prices of the forced trade, in dollars
ForcedPrices == {10, 20, 30}

ForcedInit ==
    /\ config = SourceConfig
    /\ \E how \in Shuffles :
          hand = initial_deal(Shuffle(BuiltDeck, how))
    /\ money = [p \in Players |-> Dollars(INITIAL_MONEY)]
    /\ \E draws \in PriorProfiles :
          pf = [p \in Players |-> initialize_particles(draws[p])]
    /\ trade_events_global = << >>
    /\ turn_number = 1
    /\ pc = At("prior", 0, 0)
    /\ last = NoAttempt

ForcedTrade ==
    /\ pc.phase = "prior"
    /\ \E seller \in Players, suit \in Suits, price \in ForcedPrices :
          \E buyer \in Players \ {seller} :
              /\ CardsOfSuit(hand[seller], suit) # << >>
              /\ Execute("forced", buyer, seller,
                         CardsOfSuit(hand[seller], suit)[1], suit,
                         Dollars(price), "", {})
    /\ pc' = At("forced", 0, 0)
    /\ UNCHANGED <<turn_number, config>>

ForcedSpec == ForcedInit /\ [][ForcedTrade]_vars

(***************************************************************************)
(* A sequence of observations.  From a prior sample, update(suit, price) is *)
(* applied to the filter of every player (sim.py 340-341) for one           *)
(* observation after another; hands, cash and the trade log are left out    *)
(* of it.                                                                   *)
(***************************************************************************)
\* the observations of a sequence
MaxObservations == 2

\* the prices observed, in dollars
ObservedPrices == {12, 15, 18, 25, 150}

ObserveInit ==
    /\ config = SourceConfig
    /\ \E how \in Shuffles :
          hand = initial_deal(Shuffle(BuiltDeck, how))
    /\ money = [p \in Players |-> Dollars(INITIAL_MONEY)]
    /\ \E draws \in PriorProfiles :
          pf = [p \in Players |-> initialize_particles(draws[p])]
    /\ trade_events_global = << >>
    /\ turn_number = 1
    /\ pc = At("observing", 0, 0)
    /\ last = NoAttempt

\* for p in players.values(): p.pf.update(suit, price, sigma=3.0)
Observe ==
    /\ pc.phase = "observing"
    /\ pc.i < MaxObservations
    /\ \E suit \in Suits, price \in ObservedPrices :
          /\ Broadcast(suit, Dollars(price))
          /\ last' = [NoAttempt EXCEPT !.fn = "update", !.suit = suit,
                                       !.price = Dollars(price)]
    /\ pc' = At("observing", pc.i + 1, 0)
    /\ UNCHANGED <<hand, money, trade_events_global, turn_number, config>>

ObserveSpec == ObserveInit /\ [][Observe]_vars

(***************************************************************************)
(* Prices out of the range of the float arithmetic.  float() parses a      *)
(* price such as "-1e200"; (price - expected_val) ** 2 (sim.py 167) raises *)
(* OverflowError for a difference above about 1.3e154 in magnitude, and    *)
(* math.exp(-x) (sim.py 84) for x below -709.78.  Nothing in the source    *)
(* catches OverflowError: the exception ends the process.                  *)
(***************************************************************************)
\* stands for the magnitude, in money units, of such a price
Astronomic == 2 ^ 30

AstronomicInputs ==
    { [text |-> "-1e200", num |-> TRUE, val |-> 0 - Astronomic],
      [text |-> "1e200", num |-> TRUE, val |-> Astronomic] }

\* the exception leaves the function, turn_loop and main
Raise(fn) ==
    /\ UNCHANGED market
    /\ last' = [NoAttempt EXCEPT !.fn = fn, !.outcome = "Raised"]

\* The trade executes up to the statement that raises: the card and the
\* cash have moved, and the first call of pf.update raises at its first
\* particle, before any weight is changed and before the event is made.
ExecuteUntilRaise(fn, buyer, seller, card, suit, price, responder) ==
    /\ hand' = [hand EXCEPT ![seller] = Remove(@, card),
                            ![buyer] = Append(@, card)]
    /\ money' = Pay(money, buyer, seller, price)
    /\ UNCHANGED <<pf, trade_events_global>>
    /\ last' = [fn |-> fn, outcome |-> "Raised", buyer |-> buyer,
                seller |-> seller, suit |-> suit, price |-> price, card |-> card,
                responder |-> responder, rolled |-> {responder}]

\* human_propose_trade (sim.py 443-493) for a price of AstronomicInputs.
\* Buying: logistic(beta * (price - bot_ev)) raises for the negative price.
\* Selling: logistic(alpha * (bot_ev - price)) is 1.0 for the negative
\* price, every roll is below it, and the settlement raises in pf.update.
human_propose_trade_astronomic(opponent, action, suit_char, price_in) ==
    LET human == HUMAN_PLAYER
        suit  == suit_map_input[suit_char]
        price == price_in.val
    IN  IF action = "b" /\ CannotAfford(money[human], price)
        THEN Return("human", "Aborted")
        ELSE IF action = "s" /\ CannotAfford(money[opponent], price)
        THEN Return("human", "Aborted")
        ELSE IF action = "b"
        THEN IF CardsOfSuit(hand[opponent], suit) = << >>
             THEN Return("human", "Aborted")
             ELSE Raise("human")
        ELSE IF CardsOfSuit(hand[human], suit) = << >>
             THEN Return("human", "Aborted")
             ELSE ExecuteUntilRaise("human", opponent, human,
                                    CardsOfSuit(hand[human], suit)[1],
                                    suit, price, "buyer")

\* the human chooses [T]rade and types such a price
HumanTypesAstronomic ==
    /\ pc.phase = "interact"
    /\ Explored
    /\ \E action \in {"b", "s"}, suit_char \in DOMAIN suit_map_input,
          price_in \in AstronomicInputs :
          human_propose_trade_astronomic(all_bots[pc.i], action, suit_char, price_in)
    /\ pc' = IF last'.outcome = "Raised" THEN At("raised", pc.i, 0)
             ELSE AfterBotToBot(pc.i, 0)
    /\ UNCHANGED <<turn_number, config>>

OverflowNext == Next \/ HumanTypesAstronomic

\* the program with these prices among those the human types
OverflowSpec == Init /\ [][OverflowNext]_vars

\* the places of the loop
Positions ==
    { At(phase, i, j) :
        phase \in {"interact", "b2b", "end_turn", "game_over", "done"},
        i \in 0 .. Len(all_bots), j \in 0 .. Len(all_bots) }

\* the loop moves on from the place it stands at
Advance == pc.phase # "done" /\ pc' \in Positions \ {pc}

\* turn_loop runs on one thread and every prompt is answered, so a step that
\* can be taken is taken.  A step can be taken at every place but the last,
\* and every step of Next moves the loop to another place: weak fairness of
\* Next is weak fairness of that move.
FairSpec == Spec /\ WF_pc(Advance)


(***************************************************************************)
(* Properties.                                                             *)
(***************************************************************************)
\* a step of a negotiation function: the loop stands at an attempt and moves
AttemptStep == pc.phase \in {"interact", "b2b"} /\ pc' # pc

SettledStep == AttemptStep /\ last'.outcome = "Accepted"

UnsettledStep == AttemptStep /\ last'.outcome # "Accepted"

Settled == last.outcome = "Accepted"

\* the cards of all hands, player after player
AllCards ==
    hand[PlayerOrder[1]] \o hand[PlayerOrder[2]]
        \o hand[PlayerOrder[3]] \o hand[PlayerOrder[4]]

\* the places of a card in a list of cards
Places(cards, card) == { k \in 1 .. Len(cards) : cards[k] = card }

\* C1: Card conservation.  Whatever attempts have been made and however
\* they ended, the hands together hold as many cards as the deck, of each
\* suit as many as the deck distribution says (10, 12, 10, 8), and every
\* card of the deck is held exactly once, by exactly one player.
C1_CardConservation ==
    /\ Len(AllCards) = Len(BuiltDeck)
    /\ \A s \in Suits : Len(CardsOfSuit(AllCards, s)) = deck_distribution[s]
    /\ \A i \in 1 .. Len(BuiltDeck) :
          Cardinality(Places(AllCards, BuiltDeck[i])) = 1

\* a trade has settled and its card lies in the buyer's hand, which has
\* grown, and no longer in the seller's
C1_Witness ==
    /\ Settled
    /\ Len(hand[last.buyer]) > Len(hand[last.seller])
    /\ hand[last.buyer][Len(hand[last.buyer])] = last.card
    /\ \A k \in 1 .. Len(hand[last.seller]) : hand[last.seller][k] # last.card

TotalCash ==
    money[PlayerOrder[1]] + money[PlayerOrder[2]]
        + money[PlayerOrder[3]] + money[PlayerOrder[4]]

\* what an attempt does to the cash
CashMoves ==
    IF last'.outcome = "Accepted"
    THEN /\ money'[last'.buyer] = money[last'.buyer] - last'.price
         /\ money'[last'.seller] = money[last'.seller] + last'.price
         /\ \A p \in Players \ {last'.buyer, last'.seller} : money'[p] = money[p]
    ELSE money' = money

\* C2: Zero-sum settlement.  Every attempt leaves the sum of the players'
\* cash unchanged: a settled trade takes exactly the price from the buyer,
\* gives exactly the price to the seller and touches no third player, and
\* an unsettled attempt moves no cash.  Until the pot is paid the total is
\* num_players * INITIAL_MONEY.
C2_ZeroSum ==
    /\ [](pc.phase # "done" => TotalCash = num_players * Dollars(INITIAL_MONEY))
    /\ [][AttemptStep => CashMoves]_vars

\* a trade at a positive price has settled: the buyer has paid it and the
\* seller has received it
C2_Witness ==
    /\ Settled
    /\ last.price > 0
    /\ money[last.buyer] = Dollars(INITIAL_MONEY) - last.price
    /\ money[last.seller] = Dollars(INITIAL_MONEY) + last.price

\* C3: No settlement beyond the buyer's cash.  On every settled trade, of
\* any of the three negotiation functions and in either direction, the
\* buyer's cash just before the settlement was at least the price.
C3_BuyerCanPay ==
    [][SettledStep => money[last'.buyer] >= last'.price]_vars

\* the human has asked to buy at a price above the human's cash, and the
\* attempt was aborted
C3_Witness ==
    /\ last.fn = "human"
    /\ last.outcome = "Aborted"
    /\ trade_events_global = << >>
    /\ \A p \in Players, suit_char \in SuitInputs \cap DOMAIN suit_map_input :
          CardsOfSuit(hand[p], suit_map_input[suit_char]) # << >>
    /\ \E price_in \in PriceInputs :
          price_in.num /\ CannotAfford(money[HUMAN_PLAYER], price_in.val)

\* the value a player's own belief gives a card of the suit
OwnValue(p, suit) == expected_value(suit, Belief(p))

\* the probabilities with which p, from its own belief, sells or buys a card
\* of the suit at the price
SellsAt(p, suit, price) == logistic(HalfGap(price - OwnValue(p, suit)))

BuysAt(p, suit, price) == logistic(HalfGap(OwnValue(p, suit) - price))

\* botA proposes to botB with the draws d: the card is there, the buyer can
\* pay, and botB's roll is below botB's probability
BotAgrees(botA, botB, d) ==
    LET owner == IF d.action = "buy" THEN botB ELSE botA
        buyer == IF d.action = "buy" THEN botA ELSE botB
    IN  /\ hand[owner] # << >>
        /\ LET suit  == SuitOf(choice(hand[owner], d.c))
                quote == OwnValue(botA, suit) + uniform(Dollars(0 - 2), Dollars(2), d.u)
                price == IF 2 * quote < Dollars(1) THEN Dollars(1) \div 2 ELSE quote
            IN  /\ money[buyer] >= price
                /\ FLess(Roll(d.r), IF d.action = "buy" THEN SellsAt(botB, suit, price)
                                                        ELSE BuysAt(botB, suit, price))

\* the human proposes to the bot: the input is valid, the buyer can pay, the
\* card is there, and the bot's roll is below the bot's probability
BotAgreesWithHuman(bot, action, suit_char, price_in, r) ==
    /\ action \in {"b", "s"}
    /\ suit_char \in {"S", "C", "H", "D"}
    /\ price_in.num
    /\ LET suit   == suit_map_input[suit_char]
            buyer  == IF action = "b" THEN HUMAN_PLAYER ELSE bot
            seller == IF action = "b" THEN bot ELSE HUMAN_PLAYER
        IN  /\ money[buyer] >= price_in.val
            /\ CardsOfSuit(hand[seller], suit) # << >>
            /\ FLess(Roll(r), IF action = "b" THEN SellsAt(bot, suit, price_in.val)
                                               ELSE BuysAt(bot, suit, price_in.val))

\* the bot proposes to the human: the buyer can pay, the human answers "y"
\* and the card is there; nobody rolls
HumanAgrees(bot, action, suit, u, response) ==
    LET buyer  == IF action = "buy" THEN bot ELSE HUMAN_PLAYER
        seller == IF action = "buy" THEN HUMAN_PLAYER ELSE bot
        price  == IF action = "buy"
                  THEN OwnValue(bot, suit) + uniform(0, Dollars(2), u)
                  ELSE OwnValue(bot, suit) - uniform(0, Dollars(2), u)
    IN  /\ money[buyer] >= price
        /\ response = "y"
        /\ CardsOfSuit(hand[seller], suit) # << >>

ResponderDecides ==
    /\ pc.phase = "b2b" =>
          LET botA == all_bots[pc.i]
              botB == other_bots(botA)[pc.j]
          IN  \A d \in BotDraws :
                  bot_vs_bot_propose_trade(botA, botB, d.action, d.c, d.u, d.r)
                      => (last'.outcome = "Accepted" <=> BotAgrees(botA, botB, d))
    /\ pc.phase = "interact" =>
          LET bot == all_bots[pc.i]
          IN  /\ \A action \in ActionsTyped :
                    \A suit_char \in SuitsTyped(action) :
                        \A price_in \in PricesTyped(action, suit_char), r \in RollDraws :
                            human_propose_trade(bot, action, suit_char, price_in, r)
                                => (last'.outcome = "Accepted"
                                       <=> BotAgreesWithHuman(bot, action, suit_char,
                                                              price_in, r))
              /\ \A action \in {"buy", "sell"}, u \in UniformDraws,
                    response \in {"y", "n"}, suit \in Suits :
                    bot_propose_trade(bot, action, suit, u, response)
                        => (last'.outcome = "Accepted"
                               <=> HumanAgrees(bot, action, suit, u, response))
    /\ last'.outcome = "Accepted" =>
          last'.rolled = IF last'.fn = "bot" THEN {} ELSE {last'.responder}

\* C4: The responder decides.  An attempt settles if and only if its
\* preconditions hold (valid input, a card to trade, a buyer who can pay)
\* and the side that is asked agrees: a bot that is asked rolls once and
\* agrees when the roll is below its acceptance probability, computed from
\* its own belief; the human who is asked agrees by answering "y".  The
\* proposing side makes no roll.
C4_ResponderDecides == [][AttemptStep => ResponderDecides]_vars

\* a bot's offer to buy from a bot, above the buyer's own value, has settled
\* on the seller's roll alone
C4_Witness ==
    /\ Settled
    /\ last.fn = "bot_vs_bot"
    /\ last.responder = "seller"
    /\ last.rolled = {"seller"}

\* C4 as the claim has it: a trade between bots settles only when the roll
\* is below the buyer's probability and below the seller's probability,
\* each from that side's own belief.
C4_BothSidesAgree ==
    [][(pc.phase = "b2b" /\ SettledStep) =>
          \A d \in BotDraws :
              bot_vs_bot_propose_trade(all_bots[pc.i], other_bots(all_bots[pc.i])[pc.j],
                                       d.action, d.c, d.u, d.r)
                  => /\ FLess(Roll(d.r), BuysAt(last'.buyer, last'.suit, last'.price))
                     /\ FLess(Roll(d.r), SellsAt(last'.seller, last'.suit, last'.price))]_vars

\* C5: No trader exceeds their limits, as the claim has it: every player's
\* cash is at least 0 in every reachable state.
C5_CashNeverNegative == \A p \in Players : money[p] >= 0

\* the place of an attempt in its turn: the human's opportunity with a bot,
\* then that bot's attempts with the other bots, bot after bot
Rank(c) ==
    CASE c.phase = "interact" -> ((c.i - 1) * Len(all_bots)) + 1
      [] c.phase = "b2b" -> ((c.i - 1) * Len(all_bots)) + 1 + c.j
      [] OTHER -> (Len(all_bots) * Len(all_bots)) + 1

\* C6: An attempt that does not settle changes nothing.  Whenever an attempt
\* ends Aborted, Rejected or cancelled, every hand, every player's cash,
\* every particle filter and the trade log are what they were before it, and
\* the loop moves on to the next attempt of the turn: the attempt is not
\* made again.
C6_UnsettledChangesNothing ==
    [][UnsettledStep =>
          /\ hand' = hand
          /\ money' = money
          /\ pf' = pf
          /\ trade_events_global' = trade_events_global
          /\ turn_number' = turn_number
          /\ Rank(pc') = Rank(pc) + 1]_vars

\* the bot has rejected the human's proposal on its roll, and the loop
\* stands at that bot's first attempt with another bot
C6_Witness ==
    /\ last.fn = "human"
    /\ last.outcome = "Rejected"
    /\ pc.phase = "b2b"
    /\ pc.j = 1

\* the filters one update with the observation can leave to player p
Updated(p, suit, price) ==
    update(pf[p], suit, price, sigma, ReinitDraws, ResampleFamily)

\* C7: Public belief broadcast.  The step that settles a trade updates the
\* filter of every player, party to the trade or not, once with the trade's
\* suit and price, so that the next attempt finds it updated; no other step
\* changes a filter.
C7_BeliefBroadcast ==
    [][IF SettledStep
       THEN \A p \in Players : pf'[p] \in Updated(p, last'.suit, last'.price)
       ELSE pf' = pf]_vars

\* a trade between two bots has settled and all four filters, those of the
\* human and of the bot not party to it too, have left their initial state
C7_Witness ==
    /\ Settled
    /\ last.fn = "bot_vs_bot"
    /\ \A draws \in InitialDraws, p \in Players :
          pf[p] # initialize_particles(draws[p])

LogIndexed ==
    \A k \in 1 .. Len(trade_events_global) :
        /\ trade_events_global[k].trade_index = k
        /\ k > 1 => trade_events_global[k - 1].time <= trade_events_global[k].time

LogGrows ==
    IF SettledStep
    THEN /\ Len(trade_events_global') = Len(trade_events_global) + 1
         /\ SubSeq(trade_events_global', 1, Len(trade_events_global))
                = trade_events_global
    ELSE trade_events_global' = trade_events_global

BeliefSum(f) ==
    LET b == get_belief_distribution(f)
    IN  FAdd(FAdd(FAdd(b["Spades"], b["Clubs"]), b["Hearts"]), b["Diamonds"])

\* the sum is 1 up to the rounding of Digits digits: within 5 thousandths
Normalized(f) ==
    /\ \A s \in Suits : f.cnt[s] >= 0 /\ f.w[s].m >= 0
    /\ f.cnt["Spades"] + f.cnt["Clubs"] + f.cnt["Hearts"] + f.cnt["Diamonds"]
          = n_particles
    /\ FToFixed(BeliefSum(f), 1000) \in 995 .. 1005

\* the observation gives every particle of player p the likelihood zero
ZeroTotal(p, suit, price) ==
    \A s \in Suits :
        pf[p].cnt[s] > 0 =>
            FIsZero(FMul(pf[p].w[s],
                         likelihood(price, valuation_given_candidate(suit, s), sigma)))

\* C9: Belief normalization.  For every player, after construction and after
\* every update, with or without a resampling, all weights are at least 0
\* and the belief distribution sums to 1 (up to rounding).  An update that
\* takes every weight to zero does not fail: it leaves the filter freshly
\* initialized, and normalized again.
C9_BeliefNormalized ==
    /\ [](\A p \in Players : Normalized(pf[p]))
    /\ [][SettledStep =>
             \A p \in Players :
                 ZeroTotal(p, last'.suit, last'.price) =>
                     /\ pf'[p] \in { initialize_particles(i) : i \in ReinitDraws }
                     /\ Normalized(pf'[p])]_vars

\* a trade at 150 dollars, far from every valuation, has settled: every
\* weight went to zero and every filter is freshly initialized
C9_Witness ==
    /\ Settled
    /\ last.price = Dollars(150)
    /\ \A p \in Players :
          /\ pf[p] \in { initialize_particles(i) : i \in ReinitDraws }
          /\ Normalized(pf[p])

\* 1 / n_particles
OneNth == FDiv(FOne, FFromInt(n_particles))

\* every particle weighs 1 / n_particles, so that the belief in a suit is the
\* share of the particles that drew it
FreshlyDrawn(f) ==
    /\ f.cnt["Spades"] + f.cnt["Clubs"] + f.cnt["Hearts"] + f.cnt["Diamonds"]
          = n_particles
    /\ \A s \in Suits :
          /\ f.cnt[s] > 0 => f.w[s] = OneNth
          /\ get_belief_distribution(f)[s] = FMulInt(OneNth, f.cnt[s])

\* C10: The prior is a sample of the uniform distribution.  Before any
\* observation, and again after an update that took every weight to zero,
\* a player's filter holds n_particles particles of weight 1 / n_particles,
\* each with a candidate drawn at random from the four suits: the belief in
\* a suit is the share of the particles that drew it, and the four shares
\* sum to 1.
C10_PriorIsSample ==
    /\ [](trade_events_global = << >> => \A p \in Players : FreshlyDrawn(pf[p]))
    /\ [][SettledStep =>
             \A p \in Players :
                 ZeroTotal(p, last'.suit, last'.price) => FreshlyDrawn(pf'[p])]_vars

\* a trade has taken every weight to zero, and the particles the human's
\* filter then drew are spread unevenly over the suits
C10_Witness ==
    /\ Settled
    /\ Len(trade_events_global) = 1
    /\ \A p \in Players : FreshlyDrawn(pf[p])
    /\ \E s \in Suits : 4 * pf[HUMAN_PLAYER].cnt[s] > n_particles

\* C10 as the claim has it: before any observation every player's belief
\* is exactly 1/4 for each of the four suits.
C10_ExactlyUniform ==
    trade_events_global = << >> =>
        \A p \in Players, s \in Suits :
            get_belief_distribution(pf[p])[s] = FDiv(FOne, FFromInt(4))

\* C11: the final payout gives every player whose count of goal-suit cards
\* equals the largest count the pot divided by the number of such players
\* (half each for two of them, a third each for three), leaves every other
\* player's cash as it was, raises the total cash by exactly the pot, and is
\* applied once: after it nothing moves any cash.
MostGoalCards ==
    { p \in Players : \A q \in Players : GoalCount(q) <= GoalCount(p) }

PayoutStep == pc.phase = "game_over" /\ pc' # pc

C11_FinalPayout ==
    /\ [][PayoutStep =>
            /\ \A p \in MostGoalCards :
                  money'[p] * Cardinality(MostGoalCards)
                     = money[p] * Cardinality(MostGoalCards) + Dollars(pot_amount)
            /\ \A p \in Players \ MostGoalCards : money'[p] = money[p]
            /\ TotalCash' = TotalCash + Dollars(pot_amount)
            /\ pc'.phase = "done"]_vars
    /\ [][pc.phase = "done" => money' = money /\ pc' = pc]_vars

\* scored games with one, two and three winners
C11_Witness ==
    /\ pc.phase = "done"
    /\ Cardinality(MostGoalCards) = 2
    /\ \E p \in MostGoalCards :
          money[p] = Dollars(INITIAL_MONEY) + Dollars(pot_amount) \div 2

C11_WitnessThreeWay ==
    /\ pc.phase = "done"
    /\ Cardinality(MostGoalCards) = 3

\* C12: the valuation of a held card's suit under a candidate goal suit of a
\* filter is defined for all 16 pairs of suits: it is 30 when the two are the same suit, 20
\* exactly when they differ and lie in the same colour group (Spades with
\* Clubs, Hearts with Diamonds), and 10 for every other pair.
ColourGroups == { {"Spades", "Clubs"}, {"Hearts", "Diamonds"} }

SameColour(s, t) == \E g \in ColourGroups : s \in g /\ t \in g

HeldSuits == { SuitOf(AllCards[k]) : k \in 1 .. Len(AllCards) }

CandidateSuits == UNION { DOMAIN pf[p].cnt : p \in Players }

C12_ValuationTable ==
    /\ HeldSuits \X CandidateSuits = Suits \X Suits
    /\ Cardinality(HeldSuits \X CandidateSuits) = 4 * 4
    /\ \A s \in HeldSuits, t \in CandidateSuits :
          LET v == valuation_given_candidate(s, t)
          IN  /\ v \in {10, 20, 30}
              /\ v = 30 <=> s = t
              /\ v = 20 <=> (s # t /\ SameColour(s, t))
              /\ v = 10 <=> ~SameColour(s, t)

\* a trade has settled, so every filter has valued the traded suit under each
\* candidate, and the three values have all occurred
C12_Witness ==
    /\ Settled
    /\ { valuation_given_candidate(last.suit, t) : t \in Suits } = {10, 20, 30}
    /\ \E t \in Suits \ {last.suit} :
          valuation_given_candidate(last.suit, t) = 20

\* C13: the price of every proposed trade is strictly positive, whoever
\* proposed it: here for the proposals that settled, a price the human typed
\* as much as one a bot made for the human or for another bot.
C13_PricePositive ==
    /\ Settled => last.price > 0
    /\ \A k \in 1 .. Len(trade_events_global) : trade_events_global[k].price > 0

\* the same for the prices the bots make, which hold to it
C13_BotPricePositive ==
    (Settled /\ last.fn # "human") => last.price > 0

\* the attempts of a turn in the order the claim gives them: for each bot in
\* the order of all_bots the human's opportunity with it, followed by that
\* bot's attempt with each of the other bots
BotPairs == { <<a, b>> \in Players \X Players :
                 a # b /\ a # HUMAN_PLAYER /\ b # HUMAN_PLAYER }

Bots == Players \ {HUMAN_PLAYER}

OpportunitiesOf(a) ==
    << [kind |-> "human", a |-> HUMAN_PLAYER, b |-> a] >>
        \o [k \in 1 .. Cardinality(Bots) - 1 |->
               [kind |-> "b2b", a |-> a,
                b |-> (SelectSeq(PlayerOrder,
                                 LAMBDA p : p \in Bots \ {a}))[k]]]

RECURSIVE ScheduleFrom(_)
ScheduleFrom(k) ==
    IF k > Len(PlayerOrder) THEN << >>
    ELSE IF PlayerOrder[k] = HUMAN_PLAYER THEN ScheduleFrom(k + 1)
    ELSE OpportunitiesOf(PlayerOrder[k]) \o ScheduleFrom(k + 1)

Schedule == ScheduleFrom(1)

\* the parties of the attempt the loop stands at
PartiesNow ==
    IF pc.phase = "interact"
    THEN [kind |-> "human", a |-> HUMAN_PLAYER, b |-> all_bots[pc.i]]
    ELSE [kind |-> "b2b", a |-> all_bots[pc.i],
          b |-> other_bots(all_bots[pc.i])[pc.j]]

AtAttempt == pc.phase \in {"interact", "b2b"}

LoopLeft == pc.phase \in {"game_over", "done"}

C15_WitnessDeclined ==
    /\ pc.phase = "done"
    /\ turn_number <= total_turns
    /\ Settled

\* what the human can type at the three prompts with at least one answer
\* that is not valid: an action other than b and s, a character that names
\* no suit, or a price that is no number
InvalidTyped ==
    { t \in ActionInputs \X (SuitInputs \cup {""})
              \X (PriceInputs \cup {[text |-> "", num |-> FALSE, val |-> 0]}) :
         \/ t[1] \notin {"b", "s"}
         \/ t[2] \notin DOMAIN suit_map_input
         \/ ~t[3].num }

TypedInvalid(t) ==
    \E r \in RollDraws :
        human_propose_trade(all_bots[pc.i], t[1], t[2], t[3], r)

\* C16: Invalid input of the human cancels only that attempt.  At each of
\* the human's opportunities every invalid input is answered (no error
\* escapes: the attempt returns), and the step that answers it ends the
\* attempt as cancelled, leaves the hands, the cash, the filters and the
\* trade log as they were, and moves the loop to that bot's first attempt
\* with another bot, in the same turn.
C16_InvalidInputCancels ==
    /\ [](pc.phase = "interact" =>
             \A t \in InvalidTyped : ENABLED TypedInvalid(t))
    /\ [][\A t \in InvalidTyped :
             (pc.phase = "interact" /\ TypedInvalid(t) /\ pc' # pc) =>
                /\ last'.fn = "human"
                /\ last'.outcome = "Cancelled"
                /\ hand' = hand
                /\ money' = money
                /\ pf' = pf
                /\ trade_events_global' = trade_events_global
                /\ turn_number' = turn_number
                /\ pc' = At("b2b", pc.i, 1)]_vars

\* after a trade has settled the human has typed something invalid to the
\* next bot, and the settled trade is still all there is in the log
C16_Witness ==
    /\ last.fn = "human"
    /\ last.outcome = "Cancelled"
    /\ pc = At("b2b", 2, 1)
    /\ Len(trade_events_global) = 1
    /\ \E p \in Players : money[p] # Dollars(INITIAL_MONEY)

CardCount(dist) ==
    dist["Spades"] + dist["Clubs"] + dist["Hearts"] + dist["Diamonds"]

\* the invariants of a configuration: the deck has the full count of cards
\* and there is at least one turn to play
ValidConfig ==
    /\ CardCount(config.Distribution) = CardCount(SourceConfig.Distribution)
    /\ config.Turns > 0

\* C17: a configuration that breaks an invariant is fatal at initialization:
\* under it no card is dealt to any player, no cash is paid out and nothing
\* is run.
C17_RefusesToStart ==
    ~ValidConfig =>
        /\ \A p \in Players : hand[p] = << >>
        /\ pc.phase \notin {"interact", "b2b", "end_turn", "done"}

\* the forced trade of a Spades card at 30 dollars
SpadesAtThirty ==
    /\ pc.phase = "prior"
    /\ pc'.phase = "forced"
    /\ last'.suit = "Spades"
    /\ last'.price = Dollars(30)

Mass(f, s) == get_belief_distribution(f)[s]

MarketStep == market' # market /\ pc.phase # "game_over"

\* all the effects of the settlement of one trade
AllEffects ==
    /\ Len(trade_events_global') = Len(trade_events_global) + 1
    /\ LET event == trade_events_global'[Len(trade_events_global')]
       IN  /\ trade_events_global' = Append(trade_events_global, event)
           /\ event.buyer # event.seller
           /\ \E k \in 1 .. Len(hand[event.seller]) :
                 /\ SuitOf(hand[event.seller][k]) = event.suit
                 /\ hand' = [hand EXCEPT
                                ![event.seller] = Remove(@, hand[event.seller][k]),
                                ![event.buyer] = Append(@, hand[event.seller][k])]
           /\ \E price \in {last'.price} :
                 /\ RoundCents(price) = event.price
                 /\ money' = Pay(money, event.buyer, event.seller, price)
                 /\ \A p \in Players : pf'[p] \in Updated(p, event.suit, price)

\* C19: Settlement is atomic and attempts are serialized.  The loop stands
\* at one place at a time, and every step that changes any of the hands,
\* the cash, the filters and the trade log changes them all as the
\* settlement of one trade does: one card moved from the seller to the
\* buyer, the buyer debited and the seller credited the price, every
\* player's filter updated and one event appended.  No step, a step in
\* which a statement of the settlement raises included, applies a part.
C19_SettlementAtomic ==
    /\ [](pc \in Positions \cup {At("raised", i, 0) : i \in 1 .. Len(all_bots)})
    /\ [][MarketStep => AllEffects]_vars

\* the bot that makes the price of the attempt the loop stands at
Proposer == all_bots[pc.i]

\* a trade settles at a price a bot has made
BotPricedStep == SettledStep /\ last'.fn \in {"bot_vs_bot", "bot"}

\* the floor of the prices between bots
MinimumPrice == Dollars(1) \div 2

\* C20, as the code has it: the price a bot proposes is the proposing bot's
\* own expected value of the card's suit plus a perturbation; the other
\* side's expected value has no part in it.  Between bots the perturbation
\* is within 2 dollars either way and the price is floored at half a
\* dollar; to the human the bot bids its value plus up to 2 dollars when it
\* buys and asks its value less up to 2 dollars when it sells.
C20_PriceFromOwnValue ==
    [][BotPricedStep =>
          LET ev == OwnValue(Proposer, last'.suit)
          IN  /\ Proposer \in {last'.buyer, last'.seller}
              /\ last'.fn = "bot_vs_bot" =>
                    \/ (ev - Dollars(2) <= last'.price /\ last'.price <= ev + Dollars(2))
                    \/ (last'.price = MinimumPrice /\ ev + Dollars(2) < MinimumPrice)
                    \/ (last'.price = MinimumPrice /\ ev - Dollars(2) < MinimumPrice)
              /\ (last'.fn = "bot" /\ Proposer = last'.buyer) =>
                    (ev <= last'.price /\ last'.price <= ev + Dollars(2))
              /\ (last'.fn = "bot" /\ Proposer = last'.seller) =>
                    (ev - Dollars(2) <= last'.price /\ last'.price <= ev)]_vars

\* a bot has bought a card from another bot at the price it made, and the
\* trade is in the log at that price
C20_Witness ==
    /\ Settled
    /\ last.fn = "bot_vs_bot"
    /\ trade_events_global # << >>
    /\ pc.phase \in {"b2b", "interact", "end_turn"}
    /\ last.responder = "seller"
    /\ last.price >= MinimumPrice
    /\ trade_events_global[Len(trade_events_global)].price = RoundCents(last.price)

\* C20, as the claim has it: the price a bot proposes is within the range
\* of the perturbation (2 dollars either way) of the average of the buyer's
\* and the seller's expected value.
C20_PriceFromAverage ==
    [][BotPricedStep =>
          LET sum == OwnValue(last'.buyer, last'.suit)
                        + OwnValue(last'.seller, last'.suit)
          IN  /\ sum - (2 * Dollars(2)) <= 2 * last'.price
              /\ 2 * last'.price <= sum + (2 * Dollars(2))]_vars

\* the prices at which the shape of the two probabilities is looked at, in
\* rising order: the prices the human types and prices around the values of
\* a card
PriceLadder ==
    << Dollars(0 - 400), Dollars(0), Dollars(10), Dollars(16), Dollars(18),
       Dollars(20), Dollars(30), Dollars(150), Dollars(400) >>

Half == FDiv(FOne, FAdd(FOne, FOne))

\* the values of F at the prices of the ladder
Along(F(_)) ==
    << F(PriceLadder[1]), F(PriceLadder[2]), F(PriceLadder[3]),
       F(PriceLadder[4]), F(PriceLadder[5]), F(PriceLadder[6]),
       F(PriceLadder[7]), F(PriceLadder[8]), F(PriceLadder[9]) >>

\* the bot that was asked rolled below the probability of its side, taken
\* from its own belief before the trade
RolledBelowOwnProbability ==
    \E r \in RollDraws :
        FLess(Roll(r),
              IF last'.responder = "seller"
              THEN SellsAt(last'.seller, last'.suit, last'.price)
              ELSE BuysAt(last'.buyer, last'.suit, last'.price))

\* at the belief p holds, the seller's probability does not fall and the
\* buyer's does not rise as the price rises, both are 1/2 at p's value, and
\* both are above 0 and at most 1
SymmetricShape(p, suit) ==
    \A ev \in {OwnValue(p, suit)} :
        \A sells \in {Along(LAMBDA price : logistic(HalfGap(price - ev)))},
           buys \in {Along(LAMBDA price : logistic(HalfGap(ev - price)))} :
            /\ logistic(HalfGap(ev - ev)) = Half
            /\ \A k \in 1 .. Len(PriceLadder) :
                  /\ k < Len(PriceLadder) =>
                        /\ ~FLess(sells[k + 1], sells[k])
                        /\ ~FLess(buys[k], buys[k + 1])
                  /\ PriceLadder[k] <= ev =>
                        ~FLess(Half, sells[k]) /\ ~FLess(buys[k], Half)
                  /\ PriceLadder[k] >= ev =>
                        ~FLess(sells[k], Half) /\ ~FLess(Half, buys[k])
                  /\ ~FIsZero(sells[k]) /\ ~FLess(FOne, sells[k])
                  /\ ~FIsZero(buys[k]) /\ ~FLess(FOne, buys[k])

\* the filters are as constructed, or a trade has just changed them; every
\* other state holds the beliefs of the state before it
BeliefsAreNew == Settled \/ (turn_number = 1 /\ last = NoAttempt)

Reweighted(f, suit, price) ==
    [f EXCEPT !.w = [s \in Suits |->
        FMul(f.w[s], likelihood(price, valuation_given_candidate(suit, s), sigma))]]

ParticleCount(f) ==
    f.cnt["Spades"] + f.cnt["Clubs"] + f.cnt["Hearts"] + f.cnt["Diamonds"]

\* 1 / N
UniformWeight == FDiv(FOne, FFromInt(n_particles))

\* g is a resample of f: every particle has the weight 1/N and carries a
\* candidate that a particle of f carried with a positive weight
ResampleOf(g, f) ==
    \A s \in Suits :
        IF g.cnt[s] > 0
        THEN g.w[s] = UniformWeight /\ f.cnt[s] > 0 /\ ~FIsZero(f.w[s])
        ELSE g.cnt[s] = 0

\* the update of p's filter followed the rule: with f the renormalized
\* filter, the update leaves a resample of f if the effective sample size
\* of f is below N / 2, and f itself if it is not
FollowsResamplingRule(p) ==
    \E i \in ReinitDraws :
        LET f == normalize_weights(Reweighted(pf[p], last'.suit, last'.price), i)
        IN  IF FLess(effective_sample_size(f), FFromInt(n_particles \div 2))
            THEN ResampleOf(pf'[p], f)
            ELSE pf'[p] = f

\* C22: Resampling rule.  After every update the filter holds exactly
\* N = 100 particles; the update resamples if and only if the effective
\* sample size 1 / sum(w_i^2) of the renormalized weights is strictly below
\* 0.5 * N; after a resample every weight is 1/N and every particle carries
\* a candidate that had a strictly positive weight before the resample.
C22_ResamplingRule ==
    [][SettledStep =>
          \A p \in Players :
              /\ ParticleCount(pf'[p]) = n_particles
              /\ FollowsResamplingRule(p)]_vars

\* a trade has settled and left a filter resampled: all its particles weigh
\* 1/N and a candidate the filter began with has no particle left
C22_Witness ==
    /\ Settled
    /\ \E p \in Players :
          /\ ParticleCount(pf[p]) = n_particles
          /\ \E s \in Suits : pf[p].cnt[s] = 0
          /\ \A s \in Suits : pf[p].cnt[s] > 0 => pf[p].w[s] = UniformWeight

\* a trade has settled and left a filter as the renormalization made it,
\* its weights unequal
C22_WitnessNoResample ==
    /\ Settled
    /\ \E p \in Players :
          \E s \in Suits, t \in Suits :
              /\ pf[p].cnt[s] > 0 /\ pf[p].cnt[t] > 0
              /\ FLess(pf[p].w[s], pf[p].w[t])

\* the cards of a list, as a set
CardSet(h) == { h[k] : k \in 1 .. Len(h) }

\* the step moved exactly one card, of the suit the event e records, from
\* the hand of e's seller to the end of the hand of e's buyer, and touched
\* no other hand
MovedCardOf(e) ==
    \E card \in CardSet(hand[e.seller]) :
        /\ SuitOf(card) = e.suit
        /\ card \notin CardSet(hand'[e.seller])
        /\ CardSet(hand'[e.seller]) = CardSet(hand[e.seller]) \ {card}
        /\ Len(hand'[e.seller]) = Len(hand[e.seller]) - 1
        /\ card \notin CardSet(hand[e.buyer])
        /\ hand'[e.buyer] = Append(hand[e.buyer], card)
        /\ \A p \in Players \ {e.buyer, e.seller} : hand'[p] = hand[p]

\* the step charged e's buyer the price of the trade and paid it to e's
\* seller, and touched no other player's cash
ChargedBuyerOf(e) ==
    /\ money'[e.buyer] = money[e.buyer] - last'.price
    /\ money'[e.seller] = money[e.seller] + last'.price
    /\ \A p \in Players \ {e.buyer, e.seller} : money'[p] = money[p]

\* every filter was updated with the suit e records
BroadcastSuitOf(e) ==
    \A p \in Players : pf'[p] \in Updated(p, e.suit, last'.price)

\* C23: Every Trade Event faithfully records the settlement that produced
\* it.  An event is appended by a settling step only, and then its seller is
\* the player whose hand lost the card, its buyer is a different player,
\* whose hand gained that same card and whose cash was charged the price,
\* and its suit is the suit of the card that moved and the suit with which
\* every belief was updated.
C23_EventFaithful ==
    [][IF SettledStep
       THEN /\ Len(trade_events_global') = Len(trade_events_global) + 1
            /\ LET e == trade_events_global'[Len(trade_events_global')]
               IN  /\ e.buyer \in Players
                   /\ e.seller \in Players
                   /\ e.buyer # e.seller
                   /\ MovedCardOf(e)
                   /\ ChargedBuyerOf(e)
                   /\ BroadcastSuitOf(e)
       ELSE trade_events_global' = trade_events_global]_vars

\* a bot has sold the human a card at a positive price: the event names the
\* human as the buyer, the card is the last of the human's hand, of the
\* event's suit, and the human's cash is below what the game began with
C23_Witness ==
    /\ Settled
    /\ last.fn = "bot"
    /\ last.price > 0
    /\ LET e == trade_events_global[Len(trade_events_global)]
       IN  /\ e.buyer = HUMAN_PLAYER
           /\ e.seller \in Bots
           /\ SuitOf(hand[HUMAN_PLAYER][Len(hand[HUMAN_PLAYER])]) = e.suit
           /\ money[HUMAN_PLAYER] < Dollars(INITIAL_MONEY)

\* the update of f with the observation neither re-initializes the
\* particles (the reweighted total is positive) nor resamples them (the
\* effective sample size of the renormalized weights is at least N / 2)
NoResetNoResample(f, suit, price) ==
    LET g == Reweighted(f, suit, price)
    IN  /\ ~FIsZero(total_weight(g))
        /\ ~FLess(effective_sample_size(normalize_weights(g, g.cnt)),
                  FFromInt(n_particles \div 2))

\* belief[h] * L(h) / sum_h' belief[h'] * L(h')
Posterior(belief, suit, price) ==
    LET l(h)  == likelihood(price, valuation_given_candidate(suit, h), sigma)
        bl(h) == FMul(belief[h], l(h))
        total == FAdd(FAdd(FAdd(bl("Spades"), bl("Clubs")), bl("Hearts")),
                      bl("Diamonds"))
    IN  [h \in Suits |-> FDiv(bl(h), total)]

\* a and b are equal up to the rounding of Digits digits: within 2
\* thousandths
Close(a, b) ==
    LET d == FToFixed(a, 1000) - FToFixed(b, 1000)
    IN  d \in (0 - 2) .. 2

ZeroTotalReset(f, suit, price) == FIsZero(total_weight(Reweighted(f, suit, price)))

\* the prior samples of ObserveSpec
Priors == { initialize_particles(PriorDraws[k]) : k \in 1 .. Len(PriorDraws) }

\* the filters an observation of ObserveSpec can make of f
Observed(f, suit, price) ==
    update(f, suit, Dollars(price), sigma, ReinitDraws, ResampleFamily)

\* C25: Belief support never grows without a reset.  Once a player's belief
\* mass on a candidate suit is zero (no particle carries the candidate, or
\* every particle that does has the weight zero), it is zero after every
\* later update, with or without a resampling; it is positive again only
\* after an update whose likelihoods took the total weight to zero, which
\* draws all particles anew.
C25_SupportNeverGrows ==
    [][\A p \in Players, h \in Suits :
          (FIsZero(Mass(pf[p], h)) /\ ~FIsZero(Mass(pf'[p], h))) =>
              /\ ZeroTotalReset(pf[p], last'.suit, last'.price)
              /\ \E i \in ReinitDraws : pf'[p] = initialize_particles(i)]_vars

\* a filter lost all mass on a candidate in a first update, and a second
\* update, which resampled and did not reset, has left that mass at zero
C25_Witness ==
    /\ pc = At("observing", 2, 0)
    /\ \E p \in Players, f0 \in Priors, h \in Suits,
          suit \in Suits, price \in ObservedPrices :
          /\ ~FIsZero(Mass(f0, h))
          /\ \E f1 \in Observed(f0, suit, price) :
                /\ FIsZero(Mass(f1, h))
                /\ ~ZeroTotalReset(f1, last.suit, last.price)
                /\ ~NoResetNoResample(f1, last.suit, last.price)
                /\ pf[p] \in update(f1, last.suit, last.price, sigma,
                                    ReinitDraws, ResampleFamily)
                /\ FIsZero(Mass(pf[p], h))

\* a filter without mass on a candidate has gone through an update that
\* took the total weight to zero, and holds mass on that candidate again
C25_WitnessReset ==
    /\ pc = At("observing", 2, 0)
    /\ \E p \in Players, f0 \in Priors, h \in Suits,
          suit \in Suits, price \in ObservedPrices :
          \E f1 \in Observed(f0, suit, price) :
              /\ FIsZero(Mass(f1, h))
              /\ ZeroTotalReset(f1, last.suit, last.price)
              /\ pf[p] \in update(f1, last.suit, last.price, sigma,
                                  ReinitDraws, ResampleFamily)
              /\ ~FIsZero(Mass(pf[p], h))

=============================================================================
